---- MODULE Spec2Model ----
(***************************************************************************)
(* A model of examples/c-hello/main.c: the exported functions fibonacci,   *)
(* sum_array, factorial, is_prime, create_array and free_array.            *)
(*                                                                         *)
(* Every function is a small machine whose steps are the statements of     *)
(* the C function.  C's int is 32 bits and long long 64 bits; signed       *)
(* overflow, a write past the end of a block and a second free of a block  *)
(* are undefined behaviour, modelled as a choice between the outcomes a    *)
(* build can produce.  The width of size_t is the build's choice (32 bits  *)
(* for the wasm32 target the file is written for, 64 bits natively).       *)
(***************************************************************************)
EXTENDS Integers, Sequences, FiniteSets

VARIABLES
    \* fibonacci
    fn, fstack, fret, fub,
    \* sum_array
    snumbers, slength, si, ssum, spc, sreads, sub,
    \* factorial
    an, ai, aresult, apc, aub,
    \* is_prime
    pn, pi, ppc, pret, pub,
    \* create_array / free_array and the allocator under them
    sizeBits, heap, last, heapUB, halted

fibVars == <<fn, fstack, fret, fub>>
sumVars == <<snumbers, slength, si, ssum, spc, sreads, sub>>
factVars == <<an, ai, aresult, apc, aub>>
primeVars == <<pn, pi, ppc, pret, pub>>
heapVars == <<sizeBits, heap, last, heapUB, halted>>
vars == <<fibVars, sumVars, factVars, primeVars, heapVars>>

----------------------------------------------------------------------------
(* The C types.                                                            *)

INT_MAX == 2147483647
INT_MIN == -INT_MAX - 1
SIZEOF_INT == 4
NULL == 0

\* a + b leaves the range of int, above INT_MAX or below INT_MIN
AddOverflows(a, b) == (b > 0 /\ a > INT_MAX - b) \/ (b < 0 /\ a < INT_MIN - b)

\* a * b leaves the range of int, for a, b > 0
MulOverflows(a, b) == a > INT_MAX \div b

\* a + b wrapped into the range of int, when it leaves it
WrapAdd(a, b) ==
    IF b > 0 THEN (a - INT_MAX - 1) + (b - INT_MAX - 1)
    ELSE (a + INT_MAX + 1) + (b + INT_MAX + 1)

\* C's a % b for b > 0: the remainder has the sign of a
CRem(a, b) == IF a >= 0 THEN a % b ELSE -((-a) % b)

----------------------------------------------------------------------------
(* Unsigned values wider than 31 bits: little-endian sequences of         *)
(* 16-bit limbs.  A w-bit value has w \div 16 limbs.                       *)

LimbBase == 2^16

RECURSIVE Limbs(_, _)
\* the k low limbs of x >= 0
Limbs(x, k) == IF k = 0 THEN <<>> ELSE <<x % LimbBase>> \o Limbs(x \div LimbBase, k - 1)

RECURSIVE MulCarry(_, _, _)
\* a * m + c for 0 <= c < m < 2^15: Len(a) limbs and the carry-out as one more
MulCarry(a, m, c) ==
    IF a = <<>> THEN <<c>>
    ELSE LET t == Head(a) * m + c
         IN  <<t % LimbBase>> \o MulCarry(Tail(a), m, t \div LimbBase)

RECURSIVE AddCarry(_, _, _)
\* a + b + c for Len(a) = Len(b), c in 0..1: Len(a) limbs and the carry-out
AddCarry(a, b, c) ==
    IF a = <<>> THEN <<c>>
    ELSE LET t == Head(a) + Head(b) + c
         IN  <<t % LimbBase>> \o AddCarry(Tail(a), Tail(b), t \div LimbBase)

Low(a, k) == SubSeq(a, 1, k)

Complement(a) == [j \in 1..Len(a) |-> LimbBase - 1 - a[j]]

IsZero(a) == \A j \in 1..Len(a) : a[j] = 0

\* the value is below 2^31
FitsInt(a) == \A j \in 1..Len(a) : (j >= 3 => a[j] = 0) /\ (j = 2 => a[j] < 2^15)

----------------------------------------------------------------------------
(* fibonacci (main.c 24-34): the naive recursion, with its call stack.     *)

MaxFib == 10
MinFib == 3

FibInputs == -MinFib .. MaxFib

\* line 28 returning 1 in place of n
FibBaseOne(n) == 1

\* line 28: the base case returns n itself
FibBaseValue(n) == n

\* a frame of fibonacci: its argument, how far line 31 has got, which of the
\* two calls of line 31 ran first (C leaves the order open) and its value
Frame(n) == [n |-> n, stage |-> "entry", first |-> 0, acc |-> 0]

Top == fstack[Len(fstack)]
Pop == SubSeq(fstack, 1, Len(fstack) - 1)
SetTop(f) == [fstack EXCEPT ![Len(fstack)] = f]

InitFib ==
    /\ fn \in FibInputs
    /\ fstack = <<Frame(fn)>>
    /\ fret = <<>>
    /\ fub = FALSE

IdleFib ==
    /\ fn = 0
    /\ fstack = <<>>
    /\ fret = <<>>
    /\ fub = FALSE

\* lines 26-29
FibBase ==
    /\ fstack # <<>>
    /\ Top.stage = "entry"
    /\ Top.n <= 1
    /\ fret' = <<FibBaseValue(Top.n)>>
    /\ fstack' = Pop
    /\ UNCHANGED <<fn, fub>>

\* line 31, the first of the two calls: fibonacci(n - 1) or fibonacci(n - 2)
FibFirstCall ==
    /\ fstack # <<>>
    /\ Top.stage = "entry"
    /\ Top.n > 1
    /\ \E k \in {1, 2} :
          fstack' = SetTop([Top EXCEPT !.stage = "first", !.first = k]) \o <<Frame(Top.n - k)>>
    /\ UNCHANGED <<fn, fret, fub>>

\* line 31, the other call, once the first has returned
FibSecondCall ==
    /\ fstack # <<>>
    /\ Top.stage = "first"
    /\ fret # <<>>
    /\ fstack' = SetTop([Top EXCEPT !.stage = "second", !.acc = fret[1]])
                    \o <<Frame(Top.n - (3 - Top.first))>>
    /\ fret' = <<>>
    /\ UNCHANGED <<fn, fub>>

\* lines 31-33: the sum of the two values, returned.  A sum out of the range
\* of int is undefined: the build wraps it, or traps and no call returns.
FibReturn ==
    /\ fstack # <<>>
    /\ Top.stage = "second"
    /\ fret # <<>>
    /\ IF AddOverflows(Top.acc, fret[1])
       THEN /\ fub' = TRUE
            /\ \/ fret' = <<WrapAdd(Top.acc, fret[1])>> /\ fstack' = Pop
               \/ fret' = <<>> /\ fstack' = <<>>
       ELSE fub' = fub /\ fret' = <<Top.acc + fret[1]>> /\ fstack' = Pop
    /\ UNCHANGED fn

NextFib ==
    \/ FibBase /\ UNCHANGED <<sumVars, factVars, primeVars, heapVars>>
    \/ FibFirstCall /\ UNCHANGED <<sumVars, factVars, primeVars, heapVars>>
    \/ FibSecondCall /\ UNCHANGED <<sumVars, factVars, primeVars, heapVars>>
    \/ FibReturn /\ UNCHANGED <<sumVars, factVars, primeVars, heapVars>>

FibDone == fstack = <<>> /\ fret # <<>>

----------------------------------------------------------------------------
(* is_prime (main.c 68-94).                                                *)

MaxPrime == 400
MinPrime == 6

\* The inputs of is_prime: a range around 0 and the ends of the int range.
\* 2147117569 = 46337^2 is the largest n whose loop ends without i*i
\* leaving the range of int.
PrimeInputs == (-MinPrime .. MaxPrime) \cup {INT_MIN, 2147117569, INT_MAX - 2, INT_MAX}

\* line 84 with < in place of <=
PrimeLoopCondStrict(i, n) == i * i < n

\* line 84, the loop condition, when i * i is an int
PrimeLoopCond(i, n) == i * i <= n

\* line 86
PrimeDivisorFound(i, n) == CRem(n, i) = 0 \/ CRem(n, i + 2) = 0

InitPrime ==
    /\ pn \in PrimeInputs
    /\ pi = 0
    /\ ppc = "entry"
    /\ pret = 0
    /\ pub = FALSE

IdlePrime ==
    /\ pn = 0
    /\ pi = 0
    /\ ppc = "idle"
    /\ pret = 0
    /\ pub = FALSE

\* lines 70-83: the three early returns, then i = 5
PrimeEntry ==
    /\ ppc = "entry"
    /\ IF pn <= 1 THEN ppc' = "done" /\ pret' = 0 /\ pi' = pi
       ELSE IF pn <= 3 THEN ppc' = "done" /\ pret' = 1 /\ pi' = pi
       ELSE IF CRem(pn, 2) = 0 \/ CRem(pn, 3) = 0 THEN ppc' = "done" /\ pret' = 0 /\ pi' = pi
       ELSE ppc' = "test" /\ pi' = 5 /\ pret' = pret
    /\ UNCHANGED <<pn, pub>>

\* line 84: i * i <= n.  When i * i leaves the range of int the behaviour is
\* undefined: the call may return either answer, or trap.
PrimeTest ==
    /\ ppc = "test"
    /\ IF MulOverflows(pi, pi)
       THEN /\ pub' = TRUE
            /\ \/ ppc' = "done" /\ pret' \in {0, 1}
               \/ ppc' = "trap" /\ pret' = pret
       ELSE /\ pub' = pub
            /\ IF PrimeLoopCond(pi, pn)
               THEN ppc' = "body" /\ pret' = pret
               ELSE ppc' = "done" /\ pret' = 1
    /\ UNCHANGED <<pn, pi>>

\* lines 85-89 and the i += 6 of line 84
PrimeBody ==
    /\ ppc = "body"
    /\ IF AddOverflows(pi, 2)
       THEN /\ pub' = TRUE
            /\ ppc' \in {"done", "trap"}
            /\ pret' \in {0, 1}
            /\ pi' = pi
       ELSE IF PrimeDivisorFound(pi, pn)
       THEN ppc' = "done" /\ pret' = 0 /\ pi' = pi /\ pub' = pub
       ELSE IF AddOverflows(pi, 6)
       THEN pub' = TRUE /\ ppc' \in {"done", "trap"} /\ pret' \in {0, 1} /\ pi' = pi
       ELSE ppc' = "test" /\ pi' = pi + 6 /\ pret' = pret /\ pub' = pub
    /\ UNCHANGED pn

NextPrime ==
    \/ PrimeEntry /\ UNCHANGED <<fibVars, sumVars, factVars, heapVars>>
    \/ PrimeTest /\ UNCHANGED <<fibVars, sumVars, factVars, heapVars>>
    \/ PrimeBody /\ UNCHANGED <<fibVars, sumVars, factVars, heapVars>>

----------------------------------------------------------------------------
(* sum_array (main.c 38-47).  The caller's buffer is snumbers; C's index   *)
(* i is the model's index i + 1.                                           *)

MaxLen == 3
MaxVal == 2

RECURSIVE SeqsUpTo(_, _)
\* the sequences over S of length at most k
SeqsUpTo(S, k) ==
    IF k = 0 THEN {<<>>}
    ELSE LET shorter == SeqsUpTo(S, k - 1)
         IN  shorter \cup {Append(q, v) : q \in {r \in shorter : Len(r) = k - 1}, v \in S}

\* The caller passes a buffer and a length no larger than the buffer.
SumBuffers == SeqsUpTo(-MaxVal .. MaxVal, MaxLen)

InitSum ==
    /\ snumbers \in SumBuffers
    /\ slength \in -1 .. Len(snumbers)
    /\ si = 0
    /\ ssum = 0
    /\ spc = "loop"
    /\ sreads = {}
    /\ sub = FALSE

IdleSum ==
    /\ snumbers = <<>>
    /\ slength = 0
    /\ si = 0
    /\ ssum = 0
    /\ spc = "idle"
    /\ sreads = {}
    /\ sub = FALSE

\* line 41, the loop condition
SumLoopCond(i, length) == i < length

\* line 43 with = in place of +=
SumAssign(sum, v) == v

\* line 43: sum += numbers[i], in int
SumAdd(sum, v) == sum + v

SumAddOverflows(sum, v) == (v > 0 /\ sum > INT_MAX - v) \/ (v < 0 /\ sum < INT_MIN - v)

\* lines 41-44: one turn of the loop.  A sum out of the range of int is
\* undefined: the build wraps it or traps.
SumStep ==
    /\ spc = "loop"
    /\ SumLoopCond(si, slength)
    /\ sreads' = sreads \cup {si}
    /\ IF SumAddOverflows(ssum, snumbers[si + 1])
       THEN sub' = TRUE /\ ssum' = WrapAdd(ssum, snumbers[si + 1]) /\ spc' \in {"loop", "trap"}
       ELSE sub' = sub /\ ssum' = SumAdd(ssum, snumbers[si + 1]) /\ spc' = spc
    /\ si' = si + 1
    /\ UNCHANGED <<snumbers, slength>>

\* lines 41 and 45-46: the loop ends and sum is returned
SumReturn ==
    /\ spc = "loop"
    /\ ~SumLoopCond(si, slength)
    /\ spc' = "done"
    /\ UNCHANGED <<snumbers, slength, si, ssum, sreads, sub>>

NextSum ==
    \/ SumStep /\ UNCHANGED <<fibVars, factVars, primeVars, heapVars>>
    \/ SumReturn /\ UNCHANGED <<fibVars, factVars, primeVars, heapVars>>

----------------------------------------------------------------------------
(* factorial (main.c 51-64).  result is a long long: four limbs, in two's  *)
(* complement.                                                             *)

MaxFact == 23
MinFact == 3

LL_LIMBS == 4

FactInputs == -MinFact .. MaxFact

\* line 53, the base case
FactBaseCase(n) == n <= 1

\* line 59: result * i as an unbounded product (result >= 0, 0 < i < 2^15)
FactProduct(result, i) == MulCarry(result, i, 0)

\* the product does not fit a long long: it reaches 2^63
FactOverflows(result, i) ==
    LET p == FactProduct(result, i)
    IN  p[LL_LIMBS + 1] # 0 \/ p[LL_LIMBS] >= 2^15

InitFact ==
    /\ an \in FactInputs
    /\ ai = 0
    /\ aresult = Limbs(0, LL_LIMBS)
    /\ apc = "entry"
    /\ aub = FALSE

IdleFact ==
    /\ an = 0
    /\ ai = 0
    /\ aresult = Limbs(0, LL_LIMBS)
    /\ apc = "idle"
    /\ aub = FALSE

\* lines 53-58: return 1 for n <= 1, else result = 1 and i = 2
FactEntry ==
    /\ apc = "entry"
    /\ aresult' = Limbs(1, LL_LIMBS)
    /\ IF FactBaseCase(an)
       THEN apc' = "done" /\ ai' = ai
       ELSE apc' = "loop" /\ ai' = 2
    /\ UNCHANGED <<an, aub>>

\* lines 58-61: one turn of the loop.  A product out of the range of long
\* long is undefined: the build wraps it modulo 2^64 or traps.  A build
\* that wrapped once wraps again.
FactStep ==
    /\ apc = "loop"
    /\ ai <= an
    /\ aresult' = Low(FactProduct(aresult, ai), LL_LIMBS)
    /\ ai' = ai + 1
    /\ IF aub \/ ~FactOverflows(aresult, ai)
       THEN apc' = apc /\ aub' = aub
       ELSE aub' = TRUE /\ apc' \in {"loop", "trap"}
    /\ UNCHANGED an

\* lines 58 and 62-63: the loop ends and result is returned
FactReturn ==
    /\ apc = "loop"
    /\ ai > an
    /\ apc' = "done"
    /\ UNCHANGED <<an, ai, aresult, aub>>

NextFact ==
    \/ FactEntry /\ UNCHANGED <<fibVars, sumVars, primeVars, heapVars>>
    \/ FactStep /\ UNCHANGED <<fibVars, sumVars, primeVars, heapVars>>
    \/ FactReturn /\ UNCHANGED <<fibVars, sumVars, primeVars, heapVars>>

----------------------------------------------------------------------------
(* create_array and free_array (main.c 108-138) over malloc and free.      *)
(* The heap maps each address to a block: unused (never handed out), live  *)
(* or released.  A live block has a size in bytes and its ints; the model  *)
(* keeps the first Window ints cell by cell and, of the ints above them,   *)
(* the index up to which the loop of create_array has filled them.         *)

MaxBlocks == 2
MaxSize == 4

\* the ints of a block kept cell by cell: every array of the small sizes
Window == MaxSize + 1

UNINIT == 0

Addr == 1 .. MaxBlocks

SizeWidths == {32, 64}

\* The sizes a caller passes: the small sizes, -1, and two sizes at which
\* size * sizeof(int) wraps in a 32-bit size_t, to 4 and to 0.
ArraySizes == (-1 .. MaxSize) \cup {-(2^30) + 1, 2^30}

\* (size_t)x for an int x, in a size_t of w bits
ToSizeT(x, w) ==
    IF x >= 0 THEN Limbs(x, w \div 16) ELSE Complement(Limbs(-(x + 1), w \div 16))

\* line 110 with a size below 0 taken as 0
AllocRequestClamped(size, w) ==
    Low(MulCarry(ToSizeT(IF size < 0 THEN 0 ELSE size, w), SIZEOF_INT, 0), w \div 16)

\* line 110: size * sizeof(int), computed in size_t
AllocRequest(size, w) == Low(MulCarry(ToSizeT(size, w), SIZEOF_INT, 0), w \div 16)

\* the smaller of two numbers
Least(a, b) == IF a < b THEN a ELSE b

\* the ints a block of req bytes has room for, req / sizeof(int), counted
\* as far as an int index reaches
BlockInts(req) ==
    IF \E j \in 3 .. Len(req) : req[j] > (IF j = 3 THEN 1 ELSE 0) THEN INT_MAX
    ELSE req[1] \div SIZEOF_INT + req[2] * (LimbBase \div SIZEOF_INT)
            + (IF Len(req) >= 3 THEN req[3] * 2^30 ELSE 0)

\* arr[i] lies in a block of req bytes: (i + 1) * sizeof(int) <= req
Inside(i, req) == i < BlockInts(req)

\* a block that is not live
NoBlock(status) == [status |-> status, bytes |-> <<>>, mem |-> <<>>, upto |-> 0]

\* the block malloc(req) hands out: req bytes, nothing written
FreshBlock(req) ==
    [status |-> "live", bytes |-> req,
     mem |-> [j \in 1 .. Least(BlockInts(req), Window) |-> UNINIT],
     upto |-> 0]

\* undefined behaviour has gone by and the program runs on: the allocator's
\* records are no longer to be trusted
Damaged == heapUB # {}

\* malloc or free did not return: the allocator aborted the program
ABORT == NULL - 1

\* malloc(req) may return arr: NULL, or an address that holds no live block,
\* whatever the request (how much memory there is is the platform's
\* matter); a damaged allocator may also hand out a block that is live, or
\* abort
Malloc(req, arr) ==
    \/ arr = NULL
    \/ /\ arr \in Addr
       /\ heap[arr].status # "live" \/ Damaged
    \/ arr = ABORT /\ Damaged

\* line 111 without the test
ArrayAllocatedAlways(arr) == TRUE

\* line 111
ArrayAllocated(arr) == arr # NULL

\* line 114, the loop condition
ArrayLoopCond(i, size) == i < size

\* line 115
ArrayValue(i) == i + 1

RECURSIVE InitLoop(_, _, _, _)
\* lines 114-117 from index i on, over a block of req bytes whose first ints
\* are mem: the ints after the loop, the indices below Window written, the
\* index up to which the ints from Window on were written (0: none), and
\* whether a write fell outside the block, where the loop's behaviour ends
\* being defined.  The turns from Window on are taken in one step.
InitLoop(mem, i, size, req) ==
    IF ~ArrayLoopCond(i, size)
    THEN [mem |-> mem, writes |-> {}, upto |-> 0, outside |-> FALSE]
    ELSE IF ~Inside(i, req)
    THEN [mem |-> mem, writes |-> {i}, upto |-> 0, outside |-> TRUE]
    ELSE IF i >= Window
    THEN [mem |-> mem, writes |-> {}, upto |-> size, outside |-> ~Inside(size - 1, req)]
    ELSE LET rest == InitLoop([mem EXCEPT ![i + 1] = ArrayValue(i)], i + 1, size, req)
         IN  [rest EXCEPT !.writes = @ \cup {i}]

NoCall ==
    [op |-> "none", arg |-> 0, req |-> <<>>, got |-> NULL, ret |-> NULL,
     writes |-> {}, upto |-> 0]

InitHeap ==
    /\ sizeBits \in SizeWidths
    /\ heap = [a \in Addr |-> NoBlock("unused")]
    /\ last = NoCall
    /\ heapUB = {}
    /\ halted = FALSE

IdleHeap ==
    /\ sizeBits = 32
    /\ heap = <<>>
    /\ last = NoCall
    /\ heapUB = {}
    /\ halted = TRUE

\* lines 108-124.  arr is what malloc returns, or ABORT when it aborts and
\* line 111 is never reached.  A write outside the block is undefined: the
\* call traps there, or returns with the heap damaged.  The model has
\* MaxBlocks addresses and follows the calls made while one of them holds no
\* live block.
CreateArray(size, arr) ==
    /\ ~halted
    /\ \E a \in Addr : heap[a].status # "live"
    /\ \E req \in {AllocRequest(size, sizeBits)} :
          /\ Malloc(req, arr)
          /\ \E block \in {FreshBlock(req)} :
             \E run \in {IF arr # ABORT /\ ArrayAllocated(arr)
                         THEN InitLoop(block.mem, 0, size, req)
                         ELSE [mem |-> <<>>, writes |-> {}, upto |-> 0, outside |-> FALSE]} :
                /\ heap' = IF arr \in {NULL, ABORT} THEN heap
                           ELSE [heap EXCEPT ![arr] =
                                    [block EXCEPT !.mem = run.mem, !.upto = run.upto]]
                /\ heapUB' = IF run.outside THEN heapUB \cup {"bad_write"} ELSE heapUB
                /\ halted' \in (IF arr = ABORT THEN {TRUE}
                                ELSE IF run.outside THEN BOOLEAN ELSE {FALSE})
                /\ last' = [op |-> "create_array", arg |-> size, req |-> req, got |-> arr,
                            ret |-> (IF arr = ABORT THEN NULL ELSE arr),
                            writes |-> run.writes, upto |-> run.upto]
    /\ UNCHANGED sizeBits

\* the handles a caller holds: NULL and every address create_array returned
Handles == {NULL} \cup {a \in Addr : heap[a].status # "unused"}

\* line 130 with the test inverted
FreeArrayGuardInverted(arr) == arr = NULL

\* line 130
FreeArrayGuard(arr) == arr # NULL

\* free(arr) of a live block
Released(h, arr) == [h EXCEPT ![arr] = NoBlock("released")]

\* lines 128-138.  free(NULL) does nothing; free of a live block releases
\* it, or aborts when the allocator is damaged; free of a block already
\* released is undefined: the allocator aborts, or goes on damaged.
FreeArray(arr) ==
    /\ ~halted
    /\ arr \in Handles
    /\ IF FreeArrayGuard(arr) /\ arr # NULL
       THEN IF heap[arr].status = "live"
            THEN /\ heapUB' = heapUB
                 /\ \/ heap' = Released(heap, arr) /\ halted' = FALSE
                    \/ Damaged /\ heap' = heap /\ halted' = TRUE
            ELSE heap' = heap /\ heapUB' = heapUB \cup {"double_free"} /\ halted' \in BOOLEAN
       ELSE heap' = heap /\ heapUB' = heapUB /\ halted' = FALSE
    /\ last' = [op |-> "free_array", arg |-> arr, req |-> <<>>, got |-> NULL,
                ret |-> NULL, writes |-> {}, upto |-> 0]
    /\ UNCHANGED sizeBits

NextHeap ==
    \/ \E size \in ArraySizes, arr \in Addr \cup {NULL, ABORT} :
          CreateArray(size, arr) /\ UNCHANGED <<fibVars, sumVars, factVars, primeVars>>
    \/ \E arr \in Addr \cup {NULL} :
          FreeArray(arr) /\ UNCHANGED <<fibVars, sumVars, factVars, primeVars>>

----------------------------------------------------------------------------
(* One specification per function: the function's machine runs and the     *)
(* others stay idle.  The program is sequential and keeps running, so a    *)
(* call of fibonacci that can take a step takes it.                        *)

StartFib == InitFib /\ IdleSum /\ IdleFact /\ IdlePrime /\ IdleHeap
SpecFib == StartFib /\ [][NextFib]_vars /\ WF_vars(NextFib)

StartSum == IdleFib /\ InitSum /\ IdleFact /\ IdlePrime /\ IdleHeap
SpecSum == StartSum /\ [][NextSum]_vars

StartFact == IdleFib /\ IdleSum /\ InitFact /\ IdlePrime /\ IdleHeap
SpecFact == StartFact /\ [][NextFact]_vars

StartPrime == IdleFib /\ IdleSum /\ IdleFact /\ InitPrime /\ IdleHeap
SpecPrime == StartPrime /\ [][NextPrime]_vars

StartHeap == IdleFib /\ IdleSum /\ IdleFact /\ IdlePrime /\ InitHeap
SpecHeap == StartHeap /\ [][NextHeap]_vars

----------------------------------------------------------------------------
(* Properties of is_prime.                                                 *)

\* n is a prime number
IsPrimeNumber(n) == n > 1 /\ \A d \in 2 .. (n - 1) : n % d # 0

PrimeRange == -MinPrime .. MaxPrime

\* C1: for every n of the range PrimeRange, is_prime(n) returns 1 when n is
\* a prime number and 0 otherwise, without leaving the range of int: 0 for
\* n <= 1, 1 for 2 and 3, 0 for the multiples of 2 and 3 above 3; the loop
\* runs i through 5, 11, 17, ... while i * i <= n, and reaches i only when
\* no d with 1 < d < i divides n.
IsPrimeContract ==
    pn \in PrimeRange =>
        /\ ~pub
        /\ ppc \in {"entry", "test", "body", "done"}
        /\ ppc = "done" =>
              /\ pret = (IF IsPrimeNumber(pn) THEN 1 ELSE 0)
              /\ pn <= 1 => pret = 0
              /\ pn \in {2, 3} => pret = 1
              /\ (pn > 3 /\ (pn % 2 = 0 \/ pn % 3 = 0)) => pret = 0
        /\ ppc \in {"test", "body"} =>
              /\ pi >= 5 /\ pi % 6 = 5
              /\ \A d \in 2 .. (pi - 1) : pn % d # 0
        /\ ppc = "body" => pi * pi <= pn

\* C1 witness: a prime of the range found after the loop has gone round
IsPrimeLoopRan == ppc = "done" /\ pn \in PrimeRange /\ pi >= 11 /\ pret = 1

\* C10: in every call of is_prime, over the whole range of int, i * i, i + 2
\* and i += 6 stay in the range of int and the loop ends with an answer.
IsPrimeNoOverflow == ~pub /\ ppc # "trap"

----------------------------------------------------------------------------
(* Properties of factorial.                                                *)

RECURSIVE Factorial(_)
\* n! for n >= 1, in as many limbs as it takes
Factorial(n) == IF n <= 1 THEN Limbs(1, LL_LIMBS) ELSE MulCarry(Factorial(n - 1), n, 0)

\* C6: factorial(n) returns 1 for n <= 1 and the product 2 * 3 * ... * n
\* for n >= 2: n! itself up to n = 20, and n! modulo 2^64 above, the
\* overflow wrapping without an error being signalled.
FactorialWraps ==
    /\ apc # "trap"
    /\ apc = "done" =>
          /\ an <= 1 => aresult = Limbs(1, LL_LIMBS)
          /\ an >= 2 => aresult = Low(Factorial(an), LL_LIMBS)
          /\ an <= 20 => ~aub /\ aresult[LL_LIMBS] < 2^15
          /\ an = 5 => aresult = Limbs(120, LL_LIMBS)

----------------------------------------------------------------------------
(* Properties of fibonacci.                                                *)

RECURSIVE FibIter(_, _, _)
FibIter(a, b, k) == IF k = 0 THEN a ELSE FibIter(b, a + b, k - 1)

\* the n-th Fibonacci number, F(0) = 0 and F(1) = 1
FibNumber(n) == FibIter(0, 1, n)

\* what fibonacci is to return for n
FibExpected(n) == IF n <= 1 THEN n ELSE FibNumber(n)

FibInvariant ==
    /\ ~fub
    /\ FibDone =>
          /\ fret[1] = FibExpected(fn)
          /\ fn = 10 => fret[1] = 55
    \* a call's argument is its caller's less 1 or 2, so the stack stays short
    /\ \A k \in 2 .. Len(fstack) :
          /\ fstack[k - 1].n > 1
          /\ fstack[k].n \in {fstack[k - 1].n - 1, fstack[k - 1].n - 2}
    /\ \A k \in 1 .. Len(fstack) :
          /\ fstack[k].n <= fn
          /\ fstack[k].stage = "second" =>
                fstack[k].acc = FibExpected(fstack[k].n - fstack[k].first)
    /\ (fret # <<>> /\ fstack # <<>>) =>
          fret[1] \in {FibExpected(Top.n - 1), FibExpected(Top.n - 2)}

\* C7: fibonacci(n) returns n for n <= 1 and, for the larger n of the
\* range, the sum of fibonacci(n - 1) and fibonacci(n - 2), which is the
\* n-th Fibonacci number; every recursive call has a smaller argument than
\* its caller, and every call of fibonacci returns.
FibonacciContract == []FibInvariant /\ <>FibDone

\* C7 witness: fibonacci(10) has returned 55
FibonacciTen == FibDone /\ fn = 10 /\ fret = <<55>>

----------------------------------------------------------------------------
(* Properties of sum_array.                                                *)

RECURSIVE SumTo(_, _)
\* numbers[0] + ... + numbers[k - 1]
SumTo(numbers, k) == IF k <= 0 THEN 0 ELSE numbers[k] + SumTo(numbers, k - 1)

SumInvariant ==
    /\ ~sub
    /\ spc \in {"loop", "done"}
    /\ sreads = {i \in 0 .. MaxLen : i < si}
    /\ \A i \in sreads : 0 <= i /\ i < slength
    /\ ssum = SumTo(snumbers, si)
    /\ spc = "done" =>
          /\ ssum = SumTo(snumbers, slength)
          /\ sreads = {i \in 0 .. MaxLen : i < slength}
          /\ slength <= 0 => ssum = 0 /\ sreads = {}

\* C8: sum_array(numbers, length) returns numbers[0] + ... +
\* numbers[length - 1], and 0 when length <= 0; it reads the indices
\* 0 .. length - 1 and no other, and leaves the buffer as it was.
SumArrayContract == []SumInvariant /\ [][snumbers' = snumbers]_vars

\* C8 witness: a full buffer summed
SumArrayFull == spc = "done" /\ Len(snumbers) = 3 /\ slength = 3 /\ ssum = 5

----------------------------------------------------------------------------
(* Properties of create_array and free_array.  last is the latest call: a  *)
(* step that ends with last.op = "create_array" is a call of create_array. *)

\* C2: once create_array has returned h and free_array(h) has released the
\* block, free_array(h) again does nothing: no block is released twice.
FreeArrayTwiceIsSafe == "double_free" \notin heapUB

\* C3: for every size >= 0, a create_array(size) whose allocation succeeds
\* returns a handle to exactly size entries, entry index holding index + 1,
\* and has written to the positions 0 .. size - 1 only.
CreateArrayFills ==
    (last.op = "create_array" /\ last.arg >= 0 /\ last.got \in Addr) =>
        /\ ~halted
        /\ last.ret = last.got
        /\ heap[last.ret].status = "live"
        /\ Append(heap[last.ret].bytes, 0)
              = MulCarry(Limbs(last.arg, sizeBits \div 16), SIZEOF_INT, 0)
        /\ Len(heap[last.ret].mem) = Least(last.arg, Window)
        /\ \A j \in 1 .. Len(heap[last.ret].mem) : heap[last.ret].mem[j] = j
        /\ heap[last.ret].upto = (IF last.arg > Window THEN last.arg ELSE 0)
        /\ last.writes = {i \in 0 .. Window - 1 : i < last.arg}
        /\ last.upto = heap[last.ret].upto

\* C4: a create_array whose allocation fails returns NULL, writes no
\* element, leaves the heap as it was and ends normally.
CreateArrayFailure ==
    [][(last'.op = "create_array" /\ last'.got = NULL) =>
          /\ last'.ret = NULL
          /\ last'.writes = {} /\ last'.upto = 0
          /\ heap' = heap
          /\ heapUB' = heapUB
          /\ halted' = FALSE]_vars

\* C4 witness: an allocation has failed for a size above 0 while a block is live
CreateArrayFailed ==
    /\ last.op = "create_array" /\ last.got = NULL /\ last.arg > 0
    /\ \E a \in Addr : heap[a].status = "live" /\ Len(heap[a].mem) > 0

\* C5: free_array(NULL) changes nothing, whatever the heap holds, a damaged
\* heap included; free_array of a live handle leaves the other blocks as
\* they were and, in a run where nothing undefined has happened, releases
\* that block and returns.
FreeArrayFrame ==
    [][last'.op = "free_array" =>
          IF last'.arg = NULL
          THEN heap' = heap /\ heapUB' = heapUB /\ halted' = halted
          ELSE heap[last'.arg].status = "live" =>
                  /\ \A b \in Addr \ {last'.arg} : heap'[b] = heap[b]
                  /\ heapUB' = heapUB
                  /\ ~Damaged =>
                        /\ heap'[last'.arg].status = "released"
                        /\ halted' = FALSE]_vars

\* C5 witness: free_array(NULL) called on a heap with a live block and a
\* released one
FreeArrayNull ==
    /\ last.op = "free_array" /\ last.arg = NULL
    /\ \E a, b \in Addr : heap[a].status = "live" /\ heap[b].status = "released"

\* req is 4 * size modulo 2^w for a size below 0: req + 4 * (-size) is a
\* multiple of 2^w
RequestIsModular(size, req, w) ==
    LET k == w \div 16
        mag == Low(AddCarry(Limbs(-(size + 1), k), Limbs(1, k), 0), k)
        twice == Low(AddCarry(mag, mag, 0), k)
        four == Low(AddCarry(twice, twice, 0), k)
    IN  Len(req) = k /\ IsZero(Low(AddCarry(req, four, 0), k))

\* what a step that calls create_array with a size below 0 does, malloc
\* having returned
NegativeSizeCall ==
    /\ last'.writes = {} /\ last'.upto = 0
    /\ last'.ret = last'.got
    /\ heapUB' = heapUB
    /\ halted' = FALSE
    /\ last'.got = NULL => heap' = heap
    /\ last'.got # NULL =>
          /\ heap'[last'.got].status = "live"
          /\ heap'[last'.got].bytes = last'.req
          /\ \A j \in 1 .. Len(heap'[last'.got].mem) : heap'[last'.got].mem[j] = UNINIT
          /\ heap'[last'.got].upto = 0
          /\ \A b \in Addr \ {last'.got} : heap'[b] = heap[b]

\* C9 as stated: for every size < 0 create_array asks malloc for
\* size * sizeof(int) bytes modulo 2^w, a huge value, signals nothing,
\* writes no element and returns what malloc returned.
NegativeSizeHuge ==
    [][(last'.op = "create_array" /\ last'.arg < 0) =>
          /\ RequestIsModular(last'.arg, last'.req, sizeBits)
          /\ ~FitsInt(last'.req)
          /\ last'.got # ABORT => NegativeSizeCall]_vars

\* C9 as amended: the same, the request being huge (2^31 bytes or more)
\* when size_t has 64 bits.
NegativeSizeUnchecked ==
    [][(last'.op = "create_array" /\ last'.arg < 0) =>
          /\ RequestIsModular(last'.arg, last'.req, sizeBits)
          /\ sizeBits = 64 => ~FitsInt(last'.req)
          /\ last'.got # ABORT => NegativeSizeCall]_vars

\* C9 witness: a create_array with a size below 0 has returned a block,
\* which holds one int that was never written
NegativeSizeBlock ==
    /\ last.op = "create_array" /\ last.arg < 0 /\ last.ret # NULL
    /\ heap[last.ret].mem = <<UNINIT>>

====
